---------------------------- MODULE Spec2Model ----------------------------
(***************************************************************************)
(* The chat-room component (three versions of src/App.jsx) as a state      *)
(* machine: the React state and refs of one client, the asynchronous       *)
(* continuations of its handlers, the listeners it attached, and the       *)
(* rooms of the realtime database it writes to and is notified from.       *)
(*                                                                         *)
(* A handler runs up to its first await in the step of the UI event; what  *)
(* follows the await runs in a later step, when the database operation is  *)
(* acknowledged (or rejected), with the values the handler's closure       *)
(* captured at the event and the refs as they are at that later moment.    *)
(* The database answers the operations of one client in the order they     *)
(* were issued, so the continuations form a queue.                         *)
(***************************************************************************)
EXTENDS Integers, Sequences, FiniteSets, TLC

VARIABLES
  variant,          \* which version of the component runs
  roomId,           \* useState: the room id, as the handlers last set it
  inRoom,           \* useState
  messages,         \* useState: sequence of message records
  participants,     \* useState: map id -> participant record
  roomRef,          \* useRef: [room, cleanup]; room = "" is null
  messagesRef,      \* useRef: room of the ref, "" is null
  participantsRef,  \* useRef: room of the ref, "" is null
  cleanupRef,       \* useRef (part_000): the registered cleanup closures
  pending,          \* handler continuations suspended at an await, database writes in flight
  subs,             \* the listener groups attached so far, one per completed joinRoom
  feed,             \* the database: rooms/{r} -> createdAt, participants, messages
  nextKey,          \* the next push key, increasing in creation order
  disc,             \* onDisconnect(pRef).remove(): the rooms it was sent for, and
                    \* those for which it has reached the database
  last              \* the outcome of the step just taken where the state does not
                    \* show it: a rejection, a failure, a repeated notification

vars == <<variant, roomId, inRoom, messages, participants, roomRef,
          messagesRef, participantsRef, cleanupRef, pending, subs, feed,
          nextKey, disc, last>>

-----------------------------------------------------------------------------
(* Bounds of the model *)

\* pushes to the database over a run
MaxMsgs == 2
\* joinRoom calls over a run
MaxJoins == 2
\* continuations and writes in flight at once
MaxPending == 2
\* the N of limitToLast(N), 200 in the source, scaled down
HistoryLimit == 1

Variants == {"App", "part_000", "part_001"}
Rooms == {"r1", "r2"}
\* userIdRef.current and the name state of this client
Me == "u1"
name == "user-1"
\* composer contents: empty, whitespace only, text with surrounding blanks
Texts == {<<>>, <<" ">>, <<"h", " ">>}

-----------------------------------------------------------------------------
(* Values *)

\* String.prototype.trim
RECURSIVE TrimLeft(_)
TrimLeft(s) == IF s # <<>> /\ Head(s) = " " THEN TrimLeft(Tail(s)) ELSE s

RECURSIVE TrimRight(_)
TrimRight(s) ==
  IF s # <<>> /\ s[Len(s)] = " " THEN TrimRight(SubSeq(s, 1, Len(s) - 1)) ELSE s

\* the text as typed: !localText in place of !localText.trim()
untrimmed(s) == s

\* localText.trim()
trim(s) == TrimRight(TrimLeft(s))

\* the participant record joinRoom writes: { id, name, joinedAt }
participantRecord(u) == [id |-> u, name |-> name]

\* the value of rooms/{r}/participants when its keys are S
participantsValue(S) == [u \in S |-> participantRecord(u)]

NoRef == [room |-> "", cleanup |-> 0]
NoEvent == "none"

EmptyRoom == [createdAt |-> FALSE, participants |-> {}, messages |-> <<>>]

\* snap.exists() of rooms/{r}
roomExists(r) ==
  feed[r].createdAt \/ feed[r].participants # {} \/ feed[r].messages # <<>>


-----------------------------------------------------------------------------
(* Listeners *)

Kinds == {"participants", "messages", "room"}

\* the three listeners one joinRoom attaches: onValue(participantsRef.current),
\* onChildAdded(query(messagesRef.current, limitToLast(N))) and
\* onValue(roomRef.current, ..., { onlyOnce: true })
\*   p, m, o : the listener is attached (o: and has not fired yet)
\*   dirty : a participants snapshot is due (the first, or after a change)
\*   cur : how many of the room's messages the child-added listener has passed
newGroup(r) ==
  [room |-> r, p |-> TRUE, m |-> TRUE, o |-> TRUE, dirty |-> TRUE,
   cur |-> IF Len(feed[r].messages) > HistoryLimit
           THEN Len(feed[r].messages) - HistoryLimit ELSE 0]

\* the unsubscribe function of handle h = <<j, kind>>
unsubscribe(g, kind) ==
  CASE kind = "participants" -> [g EXCEPT !.p = FALSE, !.dirty = FALSE]
    [] kind = "messages" -> [g EXCEPT !.m = FALSE, !.cur = 0]
    [] OTHER -> [g EXCEPT !.o = FALSE]

closeAll(ss, H) ==
  [j \in DOMAIN ss |->
     LET g1 == IF <<j, "participants">> \in H THEN unsubscribe(ss[j], "participants") ELSE ss[j]
         g2 == IF <<j, "messages">> \in H THEN unsubscribe(g1, "messages") ELSE g1
     IN  IF <<j, "room">> \in H THEN unsubscribe(g2, "room") ELSE g2]

handlesOf(j) == {<<j, k>> : k \in Kinds}

\* every handle a session can hold, and the order joinRoom registers them in
Handles == {<<j, k>> : j \in 1..MaxJoins, k \in Kinds}
rank(kind) ==
  CASE kind = "participants" -> 1 [] kind = "messages" -> 2 [] OTHER -> 3
before(h1, h2) == h1[1] < h2[1] \/ (h1[1] = h2[1] /\ rank(h1[2]) < rank(h2[2]))

\* one try around all the calls: the first close that throws ends the release
releaseUntilThrow(ss, H, bad) ==
  closeAll(ss, {h \in H \ bad : \A b \in H \cap bad : before(h, b)})

\* the handles H called one by one, each call in its own try { } catch {}:
\* a call that throws (bad) closes nothing and the next one is still made
release(ss, H, bad) == closeAll(ss, H \ bad)

\* part_000: runCleanup calls every registered closure
runCleanup(ss, bad) == release(ss, cleanupRef, bad)

\* part_001: the cleanup closure of join j
cleanup(ss, j, bad) == release(ss, handlesOf(j), bad)

\* the handles leaveRoom is to close
registered ==
  CASE variant = "part_000" -> cleanupRef
    [] variant = "part_001" ->
         IF roomRef.room # "" /\ roomRef.cleanup # 0
         THEN handlesOf(roomRef.cleanup) ELSE {}
    [] OTHER -> {}

\* the listener cleanup leaveRoom performs
leaveRoomCleanup(ss, bad) ==
  CASE variant = "part_000" -> runCleanup(ss, bad)
    [] variant = "part_001" ->
         IF roomRef.room # "" /\ roomRef.cleanup # 0
         THEN cleanup(ss, roomRef.cleanup, bad) ELSE ss
    [] OTHER -> ss

active(j) == subs[j].p \/ subs[j].m \/ subs[j].o

-----------------------------------------------------------------------------
(* Database *)

\* set(ref(db, `rooms/${r}`), { createdAt }) replaces the whole node
setRoom(f, r) == [f EXCEPT ![r] = [EmptyRoom EXCEPT !.createdAt = TRUE]]

\* the presence record written outside rooms/{r}/participants
setParticipantElsewhere(f, r, u) == f

\* set(ref(db, `rooms/${r}/participants/${u}`), ...)
setParticipant(f, r, u) ==
  IF r \in Rooms THEN [f EXCEPT ![r].participants = @ \cup {u}] ELSE f

removeParticipant(f, r, u) ==
  IF r \in Rooms THEN [f EXCEPT ![r].participants = @ \ {u}] ELSE f

pushMessage(f, r, u, txt) ==
  IF r \in Rooms
  THEN [f EXCEPT ![r].messages =
          Append(@, [id |-> nextKey, fromId |-> u, fromName |-> name, text |-> txt])]
  ELSE f

\* the listeners ss once the database has gone from feed to f: a snapshot is
\* due where the participants changed, and a child-added listener starts over
\* where the messages are gone
notify(ss, f) ==
  [j \in DOMAIN ss |->
     LET g == ss[j] IN
     [g EXCEPT
        !.dirty = @ \/ (g.p /\ f[g.room].participants # feed[g.room].participants),
        !.cur = IF Len(f[g.room].messages) < Len(feed[g.room].messages) THEN 0 ELSE @]]

Task(o, r, t, n) == [op |-> o, room |-> r, text |-> t, then |-> n]

pendingJoins ==
  Cardinality({i \in DOMAIN pending :
                 pending[i].op \in {"create", "join"} \/ pending[i].then # ""})

pendingSends == Cardinality({i \in DOMAIN pending : pending[i].op = "send"})

canJoin == Len(pending) < MaxPending /\ Len(subs) + pendingJoins < MaxJoins

canSend == Len(pending) < MaxPending /\ (nextKey - 1) + pendingSends < MaxMsgs

-----------------------------------------------------------------------------
Init ==
  /\ variant \in Variants
  /\ roomId = ""
  /\ inRoom = FALSE
  /\ messages = <<>>
  /\ participants = participantsValue({})
  /\ roomRef = NoRef
  /\ messagesRef = ""
  /\ participantsRef = ""
  /\ cleanupRef = {}
  /\ pending = <<>>
  /\ subs = <<>>
  /\ feed = [r \in Rooms |-> EmptyRoom]
  /\ nextKey = 1
  /\ disc = [sent |-> {}, armed |-> {}]
  /\ last = NoEvent

-----------------------------------------------------------------------------
(* Callbacks *)

\* JavaScript null, as a value of the participants map's type
JsNull == [u \in {"null"} |-> [id |-> "null", name |-> "null"]]

\* snap.val() of rooms/{r}/participants: null when there is no child
participantsSnapshot(r) ==
  IF feed[r].participants = {} THEN JsNull ELSE participantsValue(feed[r].participants)

\* the callback without its default: setParticipants(snap.val())
onParticipantsNoDefault(val) == val

\* const val = snap.val() || {}; setParticipants(val)
onParticipants(val) == IF val = JsNull THEN participantsValue({}) ELSE val

\* the updater putting the new message first: [msg, ...prev]
setMessagesFront(prev, msg) ==
  IF \E k \in DOMAIN prev : prev[k].id = msg.id THEN prev ELSE <<msg>> \o prev

\* the updater without its test: setMessages((prev) => [...prev, msg])
setMessagesAlways(prev, msg) == Append(prev, msg)

\* setMessages((prev) => prev.some((m) => m.id === msg.id) ? prev : [...prev, msg])
setMessages(prev, msg) ==
  IF \E k \in DOMAIN prev : prev[k].id = msg.id THEN prev ELSE Append(prev, msg)

-----------------------------------------------------------------------------
(* joinRoom up to its first await *)

refs == <<roomRef, messagesRef, participantsRef>>

\* from setRoomId(id) to the await of the presence write
joinBody(id, pend) ==
  /\ roomId' = id
  /\ inRoom' = TRUE
  /\ roomRef' = [room |-> id, cleanup |-> 0]
  /\ messagesRef' = id
  /\ participantsRef' = id
  /\ pending' = Append(pend, Task("join", id, <<>>, ""))
  /\ last' = NoEvent

\* joinRoom(id) called from a render whose inRoom and roomId were cInRoom and
\* cRoomId; pend is what is in flight besides
joinRoom(id, pend, cInRoom, cRoomId) ==
  IF id = ""
  THEN /\ pending' = pend
       /\ last' = "joinRejected"
       /\ UNCHANGED <<roomId, inRoom, refs>>
  ELSE IF variant = "part_000" /\ cInRoom /\ cRoomId # ""
  THEN \* if (inRoom) await leaveRoom()
       /\ pending' = Append(pend, Task("leave", cRoomId, <<>>, id))
       /\ last' = NoEvent
       /\ UNCHANGED <<roomId, inRoom, refs>>
  ELSE joinBody(id, pend)

-----------------------------------------------------------------------------
(* UI events *)
(* The room-id input shows roomId and its onChange is setRoomId. While no   *)
(* room is joined the user types the id to join; while one is joined the   *)
(* input holds what the handlers left in it, or the user has cleared it.   *)
(* Only the click handlers read the state, so the steps below take its     *)
(* value at the click as `typed`, and roomId keeps what the handlers set.  *)

\* the room-id state at a click while a room is joined
Typed == {roomId, ""}

\* Math.random().toString(36).slice(2, 9) gives an id nothing has used
freshId(id) ==
  /\ ~roomExists(id)
  /\ \A j \in DOMAIN subs : subs[j].room # id
  /\ \A i \in DOMAIN pending : pending[i].room # id

\* the Create button (disabled={inRoom}): createRoom up to its await
createRoom ==
  \E id \in Rooms :
    /\ ~inRoom
    /\ canJoin
    /\ freshId(id)
    /\ roomId' = id
    /\ pending' = Append(pending, Task("create", id, <<>>, ""))
    /\ last' = NoEvent
    /\ UNCHANGED <<variant, inRoom, messages, participants, refs,
                   cleanupRef, subs, feed, nextKey, disc>>

\* the Join button (disabled={inRoom || !roomId}): joinRoom(roomId)
joinClick ==
  \E typed \in Rooms :
    /\ ~inRoom
    /\ typed # ""
    /\ canJoin
    /\ joinRoom(typed, pending, inRoom, typed)
    /\ UNCHANGED <<variant, messages, participants, cleanupRef, subs,
                   feed, nextKey, disc>>

\* leaveRoom without its test of inRoom: if (!roomId) return
leaveRoomCallAnyway(typed) ==
  /\ IF typed = ""
     THEN /\ last' = "leaveNoop"
          /\ UNCHANGED pending
     ELSE /\ Len(pending) < MaxPending
          /\ pending' = Append(pending, Task("leave", typed, <<>>, ""))
          /\ last' = NoEvent
  /\ UNCHANGED <<variant, roomId, inRoom, messages, participants, refs,
                 cleanupRef, subs, feed, nextKey, disc>>

\* leaveRoom() in a render whose roomId is typed, up to its await
leaveRoomCall(typed) ==
  /\ IF ~inRoom \/ typed = ""
     THEN /\ last' = "leaveNoop"
          /\ UNCHANGED pending
     ELSE /\ Len(pending) < MaxPending
          /\ pending' = Append(pending, Task("leave", typed, <<>>, ""))
          /\ last' = NoEvent
  /\ UNCHANGED <<variant, roomId, inRoom, messages, participants, refs,
                 cleanupRef, subs, feed, nextKey, disc>>

\* the Leave button (disabled={!inRoom})
leaveRoom ==
  \E typed \in Typed :
    /\ inRoom
    /\ leaveRoomCall(typed)

\* sendMessage() with txt the composer's content (localText), up to its
\* await; seen is what `last` keeps of a call that returns at the test
sendMessageCall(txt, seen) ==
  /\ IF ~inRoom \/ trim(txt) = <<>>
     THEN \* alert, or return: nothing is sent
          /\ last' = seen
          /\ UNCHANGED pending
     ELSE /\ canSend
          /\ \E typed \in Typed :
               pending' = Append(pending, Task("send", typed, trim(txt), ""))
          /\ last' = NoEvent
  /\ UNCHANGED <<variant, roomId, inRoom, messages, participants, refs,
                 cleanupRef, subs, feed, nextKey, disc>>

\* Send button, Enter in the composer, or the form's submit
sendMessage ==
  \E txt \in Texts :
    /\ variant = "App" \/ inRoom
    /\ sendMessageCall(txt, NoEvent)

-----------------------------------------------------------------------------
(* Continuations: what follows an await, once the database has answered *)

\* createRoom that calls joinRoom(id) whatever became of its write
createRoomResumedAnyway(ok) ==
  LET t == Head(pending) IN
  /\ pending # <<>>
  /\ t.op = "create"
  /\ feed' = IF ok THEN setRoom(feed, t.room) ELSE feed
  /\ subs' = notify(subs, feed')
  /\ roomId' = t.room
  /\ inRoom' = TRUE
  /\ roomRef' = [room |-> t.room, cleanup |-> 0]
  /\ messagesRef' = t.room
  /\ participantsRef' = t.room
  /\ pending' = Append(Tail(pending), Task("join", t.room, <<>>, ""))
  /\ last' = IF ok THEN NoEvent ELSE "createFailed"
  /\ UNCHANGED <<variant, messages, participants, cleanupRef,
                 nextKey, disc>>

\* createRoom after await set(ref(db, `rooms/${id}`), ...): joinRoom(id), from
\* the render of the click, whose inRoom was false
createRoomResumed(ok) ==
  LET t == Head(pending) IN
  /\ pending # <<>>
  /\ t.op = "create"
  /\ IF ok
     THEN /\ feed' = setRoom(feed, t.room)
          /\ subs' = notify(subs, feed')
          /\ joinRoom(t.room, Tail(pending), FALSE, t.room)
     ELSE /\ pending' = Tail(pending)
          /\ last' = "createFailed"
          /\ UNCHANGED <<roomId, inRoom, refs, feed, subs>>
  /\ UNCHANGED <<variant, messages, participants, cleanupRef,
                 nextKey, disc>>

\* the write of the new room is accepted or rejected
createRoomResume == \E ok \in BOOLEAN : createRoomResumed(ok)

\* joinRoom after await set(pRef, ...): onDisconnect, the three listeners,
\* and the registration of their cleanup
joinRoomResumed(ok) ==
  LET t == Head(pending)
      j == Len(subs) + 1
  IN
  /\ pending # <<>>
  /\ t.op = "join"
  /\ pending' = Tail(pending)
  /\ IF ~ok
     THEN \* the await throws
          /\ last' = "joinFailed"
          /\ UNCHANGED <<feed, disc, subs, cleanupRef, refs>>
     ELSE /\ feed' = setParticipant(feed, t.room, Me)
          /\ disc' = [disc EXCEPT !.sent = @ \cup {t.room}]
          /\ IF participantsRef = ""
             THEN \* onValue(null, ...) throws
                  /\ subs' = notify(subs, feed')
                  /\ last' = NoEvent
                  /\ UNCHANGED <<cleanupRef, refs>>
             ELSE /\ subs' = Append(notify(subs, feed'), newGroup(participantsRef))
                  /\ cleanupRef' = IF variant = "part_000"
                                   THEN cleanupRef \cup handlesOf(j) ELSE cleanupRef
                  /\ roomRef' = IF variant = "part_001"
                                THEN [roomRef EXCEPT !.cleanup = j] ELSE roomRef
                  /\ last' = NoEvent
                  /\ UNCHANGED <<messagesRef, participantsRef>>
  /\ UNCHANGED <<variant, roomId, inRoom, messages, participants, nextKey>>

\* the presence write is accepted or rejected
joinRoomResume == \E ok \in BOOLEAN : joinRoomResumed(ok)

\* leaveRoom after await remove(...), whose failure is caught
leaveRoomResumedWith(ok, bad) ==
  LET t == Head(pending) IN
  /\ pending # <<>>
  /\ t.op = "leave"
  /\ feed' = IF ok THEN removeParticipant(feed, t.room, Me) ELSE feed
  /\ subs' = leaveRoomCleanup(notify(subs, feed'), bad)
  /\ cleanupRef' = IF variant = "part_000" THEN {} ELSE cleanupRef
  /\ messages' = <<>>
  /\ participants' = participantsValue({})
  /\ IF t.then = ""
     THEN /\ inRoom' = FALSE
          /\ roomRef' = NoRef
          /\ messagesRef' = ""
          /\ participantsRef' = ""
          /\ roomId' = ""
          /\ pending' = Tail(pending)
          /\ last' = IF registered \cap bad = {} THEN NoEvent ELSE "closeThrew"
     ELSE \* the leaveRoom awaited by joinRoom (part_000) has returned
          joinBody(t.then, Tail(pending))
  /\ UNCHANGED <<variant, nextKey, disc>>

\* the unsubscribe functions of the database do not throw
leaveRoomResumed(ok) == leaveRoomResumedWith(ok, {})

\* the removal is accepted or rejected
leaveRoomResume == \E ok \in BOOLEAN : leaveRoomResumed(ok)

\* sendMessage that also shows its message itself once the write is accepted
sendMessageResumedEcho(ok) ==
  LET t == Head(pending) IN
  /\ pending # <<>>
  /\ t.op = "send"
  /\ pending' = Tail(pending)
  /\ IF ok
     THEN /\ feed' = pushMessage(feed, t.room, Me, t.text)
          /\ subs' = notify(subs, feed')
          /\ nextKey' = nextKey + 1
          /\ messages' = Append(messages, [id |-> nextKey, fromId |-> Me,
                                           fromName |-> name, text |-> t.text])
          /\ last' = NoEvent
     ELSE /\ last' = "sendFailed"
          /\ UNCHANGED <<feed, nextKey, subs, messages>>
  /\ UNCHANGED <<variant, roomId, inRoom, participants, refs,
                 cleanupRef, disc>>

\* sendMessage after await set(mRef, ...)
sendMessageResumed(ok) ==
  LET t == Head(pending) IN
  /\ pending # <<>>
  /\ t.op = "send"
  /\ pending' = Tail(pending)
  /\ IF ok
     THEN /\ feed' = pushMessage(feed, t.room, Me, t.text)
          /\ subs' = notify(subs, feed')
          /\ nextKey' = nextKey + 1
          /\ last' = NoEvent
     ELSE /\ last' = "sendFailed"
          /\ UNCHANGED <<feed, nextKey, subs>>
  /\ UNCHANGED <<variant, roomId, inRoom, messages, participants, refs,
                 cleanupRef, disc>>

\* the write of the message is accepted or rejected
sendMessageResume == \E ok \in BOOLEAN : sendMessageResumed(ok)

\* the write of the room-exists check reaches the database
healResume ==
  LET t == Head(pending) IN
    /\ pending # <<>>
    /\ t.op = "heal"
    /\ pending' = Tail(pending)
    /\ feed' = setRoom(feed, t.room)
    /\ subs' = notify(subs, feed')
    /\ last' = NoEvent
    /\ UNCHANGED <<variant, roomId, inRoom, messages, participants, refs,
                   cleanupRef, nextKey, disc>>

-----------------------------------------------------------------------------
(* Notifications *)

\* the onValue callback of a participants listener
deliverParticipants ==
  \E j \in DOMAIN subs :
    LET g == subs[j] IN
    /\ g.p
    /\ g.dirty
    /\ participants' = onParticipants(participantsSnapshot(g.room))
    /\ subs' = [subs EXCEPT ![j].dirty = FALSE]
    /\ last' = NoEvent
    /\ UNCHANGED <<variant, roomId, inRoom, messages, refs,
                   cleanupRef, pending, feed, nextKey, disc>>

\* the onChildAdded callback of a messages listener
deliverChildAdded ==
  \E j \in DOMAIN subs :
    LET g == subs[j] IN
    /\ g.m
    /\ g.cur < Len(feed[g.room].messages)
    /\ LET msg == feed[g.room].messages[g.cur + 1] IN
       /\ messages' = setMessages(messages, msg)
       /\ last' = IF messages' = messages THEN "childRepeated" ELSE NoEvent
    /\ subs' = [subs EXCEPT ![j].cur = @ + 1]
    /\ UNCHANGED <<variant, roomId, inRoom, participants, refs,
                   cleanupRef, pending, feed, nextKey, disc>>

\* the once-only onValue callback on the room: recreate the room if absent
deliverRoomOnce ==
  \E j \in DOMAIN subs :
    LET g == subs[j] IN
    /\ g.o
    /\ subs' = [subs EXCEPT ![j].o = FALSE]
    /\ IF roomExists(g.room) \/ roomRef.room = ""
       THEN \* nothing to do, or set(null, ...) throws
            UNCHANGED pending
       ELSE /\ Len(pending) < MaxPending
            /\ pending' = Append(pending, Task("heal", roomRef.room, <<>>, ""))
    /\ last' = NoEvent
    /\ UNCHANGED <<variant, roomId, inRoom, messages, participants, refs,
                   cleanupRef, feed, nextKey, disc>>

-----------------------------------------------------------------------------
Next ==
  \/ createRoom \/ joinClick \/ leaveRoom \/ sendMessage
  \/ createRoomResume \/ joinRoomResume \/ leaveRoomResume
  \/ sendMessageResume \/ healResume
  \/ deliverParticipants \/ deliverChildAdded \/ deliverRoomOnce

Spec == Init /\ [][Next]_vars

-----------------------------------------------------------------------------
(* The handlers called where the buttons would not call them: the Join     *)
(* button is disabled while the room-id input is empty and the Leave      *)
(* button while no room is joined, but joinRoom and leaveRoom test for    *)
(* both themselves. Here every write is accepted by the database, and a   *)
(* send that returns at its test is kept in `last`.                        *)

\* joinRoom("")
joinRoomEmpty ==
  /\ joinRoom("", pending, inRoom, roomId)
  /\ UNCHANGED <<variant, messages, participants, cleanupRef, subs,
                 feed, nextKey, disc>>

\* leaveRoom() while no room is joined
leaveRoomIdle ==
  \E typed \in Typed :
    /\ ~inRoom
    /\ leaveRoomCall(typed)

\* sendMessage(), as the action sendMessage
sendMessageSeen ==
  \E txt \in Texts :
    /\ variant = "App" \/ inRoom
    /\ sendMessageCall(txt, "sendRejected")

NextCalls ==
  \/ createRoom \/ joinClick \/ leaveRoom \/ sendMessageSeen
  \/ joinRoomEmpty \/ leaveRoomIdle
  \/ createRoomResumed(TRUE) \/ joinRoomResumed(TRUE)
  \/ leaveRoomResumed(TRUE) \/ sendMessageResumed(TRUE) \/ healResume
  \/ deliverParticipants \/ deliverChildAdded \/ deliverRoomOnce

SpecCalls == Init /\ [][NextCalls]_vars

-----------------------------------------------------------------------------
(* A second client of the same database, running the same program: its     *)
(* joinRoom writes its participant record and its sendMessage pushes a     *)
(* message. Every write is accepted, and the database answers every write  *)
(* and delivers every event in the end.                                    *)

Peer == "u2"

\* the peer's joinRoom: set(pRef, ...) under its own id
peerJoin ==
  \E r \in Rooms :
    /\ \A q \in Rooms : Peer \notin feed[q].participants
    /\ feed' = setParticipant(feed, r, Peer)
    /\ subs' = notify(subs, feed')
    /\ last' = NoEvent
    /\ UNCHANGED <<variant, roomId, inRoom, messages, participants, refs,
                   cleanupRef, pending, nextKey, disc>>

\* the peer's sendMessage: push and set under rooms/{r}/messages
peerSend ==
  \E r \in Rooms :
    /\ Peer \in feed[r].participants
    /\ (nextKey - 1) + pendingSends < MaxMsgs
    /\ feed' = pushMessage(feed, r, Peer, <<"h">>)
    /\ subs' = notify(subs, feed')
    /\ nextKey' = nextKey + 1
    /\ last' = NoEvent
    /\ UNCHANGED <<variant, roomId, inRoom, messages, participants, refs,
                   cleanupRef, pending, disc>>

NextShared ==
  \/ joinClick \/ leaveRoom
  \/ joinRoomResumed(TRUE) \/ leaveRoomResumed(TRUE) \/ healResume
  \/ deliverParticipants \/ deliverChildAdded \/ deliverRoomOnce
  \/ peerJoin \/ peerSend

\* the database answers, and its events arrive
Delivery ==
  /\ WF_vars(joinRoomResumed(TRUE)) /\ WF_vars(leaveRoomResumed(TRUE))
  /\ WF_vars(healResume)
  /\ WF_vars(deliverParticipants) /\ WF_vars(deliverChildAdded)
  /\ WF_vars(deliverRoomOnce)

SpecShared == Init /\ [][NextShared]_vars /\ Delivery

-----------------------------------------------------------------------------
(* This client alone, every write accepted, every write answered and every *)
(* event delivered in the end.                                             *)

NextSolo ==
  \/ createRoom \/ joinClick \/ leaveRoom \/ sendMessage
  \/ createRoomResumed(TRUE) \/ joinRoomResumed(TRUE)
  \/ leaveRoomResumed(TRUE) \/ sendMessageResumed(TRUE) \/ healResume
  \/ deliverParticipants \/ deliverChildAdded \/ deliverRoomOnce

Answers ==
  /\ Delivery
  /\ WF_vars(createRoomResumed(TRUE)) /\ WF_vars(sendMessageResumed(TRUE))

SpecSolo == Init /\ [][NextSolo]_vars /\ Answers

-----------------------------------------------------------------------------
(* The room shared with a second client, and removed by someone else: the   *)
(* case the existence check of joinRoom is there for.                       *)

\* rooms/{r} removed from outside this client
roomRemoved ==
  \E r \in Rooms :
    /\ roomExists(r)
    /\ feed' = [feed EXCEPT ![r] = EmptyRoom]
    /\ subs' = notify(subs, feed')
    /\ last' = NoEvent
    /\ UNCHANGED <<variant, roomId, inRoom, messages, participants, refs,
                   cleanupRef, pending, nextKey, disc>>

NextRemoved ==
  \/ joinClick \/ leaveRoom
  \/ joinRoomResumed(TRUE) \/ leaveRoomResumed(TRUE) \/ healResume
  \/ deliverParticipants \/ deliverChildAdded \/ deliverRoomOnce
  \/ peerJoin \/ peerSend \/ roomRemoved

SpecRemoved == Init /\ [][NextRemoved]_vars

-----------------------------------------------------------------------------
(* The release of the listeners when an unsubscribe call throws. The two   *)
(* versions that release their listeners, every write accepted; at most    *)
(* one handle throws at a release.                                         *)

Throwing == {B \in SUBSET Handles : Cardinality(B) <= 1}

\* leaveRoom after its await, where the calls of bad throw
leaveRoomResumedThrowing == \E bad \in Throwing : leaveRoomResumedWith(TRUE, bad)

NextRelease ==
  \/ createRoom \/ joinClick \/ leaveRoom \/ sendMessage
  \/ createRoomResumed(TRUE) \/ joinRoomResumed(TRUE)
  \/ leaveRoomResumedThrowing \/ sendMessageResumed(TRUE) \/ healResume
  \/ deliverParticipants \/ deliverChildAdded \/ deliverRoomOnce

\* the versions that keep a registry of their handles
InitRelease == Init /\ variant \in {"part_000", "part_001"}

SpecRelease == InitRelease /\ [][NextRelease]_vars

-----------------------------------------------------------------------------
(* The connection. joinRoom sends onDisconnect(pRef).remove() once the     *)
(* presence write is acknowledged and does not wait for it. When the       *)
(* connection is lost the database removes the records it holds such a     *)
(* request for; the client is gone from then on.                           *)

\* the onDisconnect request of a join reaches the database
onDisconnectArmed ==
  \E r \in disc.sent \ disc.armed :
    /\ disc' = [disc EXCEPT !.armed = @ \cup {r}]
    /\ last' = NoEvent
    /\ UNCHANGED <<variant, roomId, inRoom, messages, participants, refs,
                   cleanupRef, pending, subs, feed, nextKey>>

\* the presence records the database removes when the connection is lost
afterDisconnect(f) ==
  [r \in Rooms |->
     IF r \in disc.armed THEN [f[r] EXCEPT !.participants = @ \ {Me}] ELSE f[r]]

\* the connection is lost, with no leaveRoom
connectionLost ==
  /\ feed' = afterDisconnect(feed)
  /\ last' = "disconnected"
  /\ UNCHANGED <<variant, roomId, inRoom, messages, participants, refs,
                 cleanupRef, pending, subs, nextKey, disc>>

\* the connection has not been lost
online == last # "disconnected"

NextDrop ==
  \/ online /\ createRoom
  \/ online /\ joinClick
  \/ online /\ leaveRoom
  \/ online /\ sendMessage
  \/ online /\ createRoomResumed(TRUE)
  \/ online /\ joinRoomResumed(TRUE)
  \/ online /\ leaveRoomResumed(TRUE)
  \/ online /\ sendMessageResumed(TRUE)
  \/ online /\ healResume
  \/ online /\ deliverParticipants
  \/ online /\ deliverChildAdded
  \/ online /\ deliverRoomOnce
  \/ online /\ onDisconnectArmed
  \/ online /\ connectionLost

SpecDrop == Init /\ [][NextDrop]_vars

TypeOK ==
  /\ variant \in Variants
  /\ roomId \in Rooms \cup {""}
  /\ inRoom \in BOOLEAN
  /\ Len(pending) <= MaxPending
  /\ Len(subs) <= MaxJoins
  /\ nextKey <= MaxMsgs + 1
  /\ messagesRef = roomRef.room
  /\ participantsRef = roomRef.room

-----------------------------------------------------------------------------
(* Properties *)

NoParticipants == participantsValue({})

Idle == ~inRoom /\ pending = <<>>

\* C1: once a leave has completed and the session is idle, every subscription
\* opened for the room that was left is closed, so that no notification from
\* that room can change the local state any more.
C1_LeaveClosesSubscriptions ==
  Idle => \A j \in DOMAIN subs : ~active(j)

\* C2: once a second join has completed, no subscription for the room joined
\* first remains: every open subscription is one for the room joined last.
C2_RejoinKeepsOnlyNewRoom ==
  (inRoom /\ pending = <<>> /\ Len(subs) = 2) =>
     \A j \in DOMAIN subs : active(j) => subs[j].room = roomRef.room

\* C3: no two entries of messages have the same id; a child-added
\* notification whose id is already present changes nothing.
C3_NoDuplicateIds ==
  \A a, b \in DOMAIN messages : a # b => messages[a].id # messages[b].id

\* a notification for a message already shown has just been discarded
C3_RepeatedDiscarded ==
  /\ last = "childRepeated"
  /\ \E j1, j2 \in DOMAIN subs :
       /\ j1 # j2
       /\ subs[j1].room = subs[j2].room
       /\ subs[j1].cur > 0 /\ subs[j2].cur > 0
  /\ Len(messages) = 1

\* C4: messages is ordered by id, each entry's id at most the next one's.
C4_OrderedById ==
  \A a, b \in DOMAIN messages : a < b => messages[a].id <= messages[b].id

\* C5: messages never holds more entries than the history limit; the oldest
\* entry goes when the limit would be passed.
C5_WithinHistoryLimit == Len(messages) <= HistoryLimit

\* C6: participants and messages are empty whenever no room is active, late
\* notifications included (their entries carry no room, so that entries of
\* two rooms at once show as entries present while no room is active, or,
\* for messages, as C4's disorder).
C6_EmptyWhenNoRoom ==
  Idle => messages = <<>> /\ participants = NoParticipants

\* C7: when a participants snapshot of the active room is delivered,
\* participants becomes exactly the room's participants as the snapshot has
\* them, and the empty map when the snapshot is null.
C7_SnapshotReplaces ==
  [][\A j \in DOMAIN subs :
       ( /\ deliverParticipants
         /\ subs[j].p /\ subs[j].dirty
         /\ subs' = [subs EXCEPT ![j].dirty = FALSE]
         /\ inRoom /\ subs[j].room = roomRef.room )
       => participants' =
            [u \in feed[subs[j].room].participants |-> [id |-> u, name |-> name]]
    ]_vars

\* the snapshot of the active room has been delivered and participants shows
\* the one participant it holds
C7_SnapshotShown ==
  /\ inRoom
  /\ \E j \in DOMAIN subs :
       subs[j].p /\ ~subs[j].dirty /\ subs[j].room = roomRef.room
  /\ feed[roomRef.room].participants = {Me}
  /\ DOMAIN participants = {Me}
  /\ participants[Me] = [id |-> Me, name |-> name]

\* C8: a join whose presence write fails opens no subscription and leaves
\* the session not joined.
C8_FailedJoinNotJoined ==
  [][(joinRoomResume /\ last' = "joinFailed") => subs' = subs /\ ~inRoom']_vars

\* C9: a join that resumes when a leave has been issued behind it takes none
\* of its remaining steps: it opens no subscription.
C9_LeaveAbortsJoin ==
  [][( /\ joinRoomResume
       /\ Len(pending) >= 2
       /\ pending[2].op = "leave" )
     => subs' = subs]_vars

\* C10: every leave invoked while a room is active ends with no room active
\* and with participants and messages empty, whether the removal of the
\* presence record succeeded or not.
C10_LeaveEndsIdle ==
  [][(leaveRoomResume \/ (inRoom /\ last' = "leaveNoop"))
     => ~inRoom' /\ messages' = <<>> /\ participants' = NoParticipants]_vars

\* a join or leave is awaiting the database
joinInFlight == \E i \in DOMAIN pending : pending[i].op = "join"
leaveInFlight == \E i \in DOMAIN pending : pending[i].op = "leave"

\* C11: when joinRoom starts on a room while a room is active, the active
\* room has been left in full first: this client's participant record is gone
\* from it and participants and messages are empty.
C11_LeavesBeforeJoining ==
  [][( /\ inRoom /\ roomRef.room # ""
       /\ createRoomResume
       /\ pending' # Tail(pending) )
     => /\ Me \notin feed[roomRef.room].participants
        /\ ~joinInFlight
        /\ messages = <<>> /\ participants = NoParticipants]_vars

\* C12: a send invoked while no room is active, while the presence write of
\* a join is awaited or while a leave is awaited writes nothing.
C12_SendOnlyWhenJoined ==
  [][(sendMessage /\ (~inRoom \/ joinInFlight \/ leaveInFlight))
     => pending' = pending]_vars

\* what the session holds, and what a database operation would change
session == <<roomId, inRoom, messages, participants, refs, cleanupRef>>
database == <<pending, feed, subs, nextKey, disc>>

\* a text of spaces only, the empty text included
blank(txt) == \A i \in DOMAIN txt : txt[i] = " "

\* C13: a join with an empty room id and a send with an empty or
\* whitespace-only text return at once: no database operation is started
\* and the session's state is as before.
C13_InvalidCallsRejected ==
  [][ /\ joinRoomEmpty => UNCHANGED <<session, database>>
      /\ \A txt \in Texts :
           (blank(txt) /\ sendMessageCall(txt, "sendRejected"))
             => UNCHANGED <<session, database>> ]_vars

\* a whitespace-only send was rejected while a room was joined
C13_BlankSendRejected == last = "sendRejected" /\ inRoom

\* C14: a send whose write is accepted does not touch the local message
\* list; the list changes only in the child-added callback and in the
\* reset of leaveRoom.
C14_OnlyCallbackAppends ==
  [][ /\ sendMessageResume => messages' = messages
      /\ messages' # messages => (deliverChildAdded \/ leaveRoomResume) ]_vars

\* a message of this client is in the joined room and its listener has not
\* delivered it: the local list is still empty
C14_SentNotYetShown ==
  /\ inRoom
  /\ messages = <<>>
  /\ \E j \in DOMAIN subs :
       /\ subs[j].m /\ subs[j].room = roomRef.room
       /\ subs[j].cur < Len(feed[subs[j].room].messages)
       /\ feed[subs[j].room].messages[subs[j].cur + 1].fromId = Me

\* message k, sent by the peer, is in the joined room and ahead of the
\* position of this client's child-added listener on that room
listening(k) ==
  /\ inRoom
  /\ \E j \in DOMAIN subs :
       /\ subs[j].m /\ subs[j].room = roomRef.room
       /\ \E i \in DOMAIN feed[roomRef.room].messages :
            /\ i > subs[j].cur
            /\ feed[roomRef.room].messages[i].id = k
            /\ feed[roomRef.room].messages[i].fromId = Peer

\* the entries of the local list that show message k of the peer
shown(k) ==
  {i \in DOMAIN messages :
     /\ messages[i].id = k
     /\ messages[i].fromId = Peer
     /\ messages[i].text = <<"h">>}

\* C15: with this client and the peer joined to one room, a message the
\* peer sends is in the end shown in this client's list, with the peer's id
\* and its text, unless this client leaves; and it is never shown twice.
C15_PeerMessageShown ==
  \A k \in 1..MaxMsgs :
    /\ [](Cardinality(shown(k)) <= 1)
    /\ listening(k) ~> (shown(k) # {} \/ ~inRoom)

\* createRoom has been called for r by a session that is idle: no room
\* joined, nothing else awaited, no listener attached
creating(r) ==
  /\ ~inRoom
  /\ pending = <<Task("create", r, <<>>, "")>>
  /\ \A j \in DOMAIN subs : ~active(j)

\* the session is joined to r and shows this client as the only participant
joinedTo(r) ==
  /\ inRoom /\ roomRef.room = r /\ pending = <<>>
  /\ \E j \in DOMAIN subs : subs[j].room = r /\ subs[j].p /\ subs[j].m
  /\ DOMAIN participants = {Me}

\* the user has asked for another room, or to leave
otherIntent(r) ==
  \/ leaveInFlight
  \/ \E i \in DOMAIN pending :
       pending[i].op \in {"create", "join"} /\ pending[i].room # r

C17_DisconnectRemovesRecord ==
  ( /\ last = "disconnected"
    /\ inRoom /\ pending = <<>>
    /\ \E j \in DOMAIN subs : subs[j].room = roomRef.room /\ subs[j].p )
  => Me \notin feed[roomRef.room].participants

\* C18: once a join has completed (its listeners are attached, its
\* room-exists check has run and nothing is awaited), the joined room has a
\* room record with createdAt, also when the room had none before.
C18_JoinRecreatesRoom ==
  ( /\ inRoom /\ pending = <<>>
    /\ \A j \in DOMAIN subs : ~subs[j].o
    /\ \E j \in DOMAIN subs : subs[j].room = roomRef.room /\ subs[j].p )
  => feed[roomRef.room].createdAt

\* C19: when the write of the new room is rejected, createRoom stops there:
\* no join is started, no participant record is written, no listener is
\* attached, and the session is as idle as it was.
C19_FailedCreateJoinsNothing ==
  [][(pending # <<>> /\ Head(pending).op = "create" /\ last' = "createFailed")
     => /\ pending' = Tail(pending)
        /\ UNCHANGED <<inRoom, refs, messages, participants, cleanupRef>>
        /\ UNCHANGED <<feed, subs, disc>>]_vars

\* the write of createRoom was rejected and the session is idle, with no room
C19_CreateFailedIdle ==
  /\ last = "createFailed"
  /\ ~inRoom /\ roomRef = NoRef /\ pending = <<>>
  /\ subs = <<>>
  /\ \A r \in Rooms : ~roomExists(r)

\* C20: leaveRoom called while no room is joined returns at once: it starts
\* no database operation and leaves the session's state as it was, so a
\* second leaveRoom after a completed one adds nothing to the first.
C20_LeaveWhenIdleIsNoop ==
  [][leaveRoomIdle => UNCHANGED <<session, database>>]_vars

\* leaveRoom has just returned at its test on a session that a completed
\* leaveRoom had made idle
C20_LeftTwice ==
  /\ last = "leaveNoop"
  /\ ~inRoom /\ pending = <<>> /\ roomRef = NoRef
  /\ subs # <<>>

\* list a is the beginning of list b
prefixOf(a, b) == Len(a) <= Len(b) /\ SubSeq(b, 1, Len(a)) = a

\* C21: while the session stays joined to one room the local message list
\* only grows at its end: a child-added callback leaves it as it was or adds
\* one entry after the others, and no step removes, moves or changes an
\* entry.
C21_MessagesAppendOnly ==
  [][ /\ deliverChildAdded =>
           \/ messages' = messages
           \/ Len(messages') = Len(messages) + 1 /\ prefixOf(messages, messages')
      /\ (inRoom /\ inRoom' /\ roomRef'.room = roomRef.room)
           => prefixOf(messages, messages') ]_vars

\* a joined session whose list has got a second entry after the first
C21_SecondAppended ==
  /\ inRoom
  /\ Len(messages) = 2
  /\ messages[1].id # messages[2].id

\* handle h of the listeners ss is attached
open(ss, h) ==
  /\ h[1] \in DOMAIN ss
  /\ CASE h[2] = "participants" -> ss[h[1]].p
       [] h[2] = "messages" -> ss[h[1]].m
       [] OTHER -> ss[h[1]].o

\* C22: a release calls every registered handle even when the call of one
\* of them throws: after it, every registered handle whose own call did not
\* throw is closed.
C22_ReleaseSurvivesThrow ==
  [][\A bad \in Throwing :
       leaveRoomResumedWith(TRUE, bad)
         => \A h \in registered \ bad : ~open(subs', h)]_vars

\* the call of a participants handle threw, and the messages handle after
\* it was closed all the same
C22_ClosedAfterThrow ==
  /\ last = "closeThrew"
  /\ \E j \in DOMAIN subs : subs[j].p /\ ~subs[j].m

\* C23: in the versions that release their listeners, every handle a join
\* has registered is closed exactly once: a handle that is still attached is
\* still in the registry, for the next release to close, and a release
\* leaves the registry empty, so that the release after it closes nothing.
C23_ClosedExactlyOnce ==
  variant # "App" =>
    /\ \A h \in Handles : open(subs, h) => h \in registered
    /\ (~inRoom /\ pending = <<>>) => registered = {}

\* C24: while a room is joined, the removal leaveRoom asks for and the
\* message sendMessage pushes go to the room joinRoom wrote the presence
\* record to and attached its listeners on, whatever the room-id input
\* holds by then.
C24_UsesJoinedRoom ==
  [][( /\ inRoom
       /\ leaveRoom \/ sendMessage
       /\ Len(pending') = Len(pending) + 1 )
     => pending'[Len(pending')].room = roomRef.room]_vars

\* C25: the write of the one-shot existence check destroys nothing: every
\* participant record and every message a room holds when the write is
\* applied is still there afterwards.
C25_HealKeepsContent ==
  [][healResume =>
       \A r \in Rooms :
         /\ feed[r].participants \subseteq feed'[r].participants
         /\ prefixOf(feed[r].messages, feed'[r].messages)]_vars

=============================================================================
